---- MODULE Spec2Model ----
(***************************************************************************)
(* Model of the NP Atobarai payment gateway plugin                         *)
(* (saleor/payment/gateways/np_atobarai/plugin.py) and of the draft-order  *)
(* tax scenario driven by                                                  *)
(* tests/e2e/orders/taxes/test_order_calculate_simple_taxes_product_tax_class.py *)
(*                                                                         *)
(* Python values are modelled as follows: None stored in a configuration   *)
(* field is the sentinel string PyNone, distinct from every real string;   *)
(* return values are records tagged with a "type" field; money amounts are *)
(* integers counted in hundredths of the currency unit.                    *)
(***************************************************************************)
EXTENDS Integers, Sequences, FiniteSets, TLC

VARIABLES
    plugin_configuration,  \* the PluginConfiguration row: configuration list + active
    config,                \* self.config, the GatewayConfig built by __init__
    calls,                 \* external calls made by the last plugin handler run
    last,                  \* the last plugin handler run: inputs and outcome
    shop,                  \* shop/tax/product setup of the e2e scenario
    order,                 \* the draft order held by the platform
    order_data             \* response of the last order mutation

vars == <<plugin_configuration, config, calls, last, shop, order, order_data>>

----------------------------------------------------------------------------
(* Bounds *)

MaxPayment == 2        \* payment_information objects handed to the hooks
MaxReference == 2      \* distinct responses the external gateway may return

----------------------------------------------------------------------------
(* Module constants of plugin.py *)

\* The source string is the Japanese product name; only its identity matters.
GATEWAY_NAME == "NP-atobarai"
MERCHANT_CODE == "merchant_code"
SP_CODE == "sp_code"
TERMINAL_ID == "terminal_id"
USE_SANDBOX == "use_sandbox"
SUPPORTED_CURRENCIES == "JPY"
PLUGIN_MISCONFIGURED == "PLUGIN_MISCONFIGURED"

PyNone == "<None>"

RequiredFields == {MERCHANT_CODE, SP_CODE, TERMINAL_ID}

\* Values a secret configuration field may hold.
CodeValues == {PyNone, "", "A", "B"}

\* Python truthiness of a stored secret field value: None and "" are falsy.
Truthy(v) == v # PyNone /\ v # ""

DEFAULT_CONFIGURATION ==
    << [name |-> MERCHANT_CODE, value |-> PyNone],
       [name |-> SP_CODE, value |-> PyNone],
       [name |-> TERMINAL_ID, value |-> PyNone],
       [name |-> USE_SANDBOX, value |-> TRUE] >>

\* The configuration lists the plugin framework can store: the schema of
\* DEFAULT_CONFIGURATION with any value in each field.
Configurations ==
    { << [name |-> MERCHANT_CODE, value |-> m],
         [name |-> SP_CODE, value |-> s],
         [name |-> TERMINAL_ID, value |-> t],
         [name |-> USE_SANDBOX, value |-> u] >> :
      m \in CodeValues, s \in CodeValues, t \in CodeValues, u \in BOOLEAN }

PluginConfigurations ==
    { [configuration |-> c, active |-> a] : c \in Configurations, a \in BOOLEAN }

\* {item["name"]: item["value"] for item in configuration}
ConfDict(configuration) ==
    [ n \in { configuration[i].name : i \in 1..Len(configuration) } |->
        LET i == CHOOSE j \in 1..Len(configuration) :
                    /\ configuration[j].name = n
                    /\ \A k \in (j+1)..Len(configuration) : configuration[k].name # n
        IN configuration[i].value ]

get_api_config_swapped(conf) ==
    [ test_mode |-> conf[USE_SANDBOX],
      merchant_code |-> conf[MERCHANT_CODE],
      sp_code |-> conf[TERMINAL_ID],
      terminal_id |-> conf[SP_CODE] ]

get_api_config(conf) ==
    [ test_mode |-> conf[USE_SANDBOX],
      merchant_code |-> conf[MERCHANT_CODE],
      sp_code |-> conf[SP_CODE],
      terminal_id |-> conf[TERMINAL_ID] ]

\* NPAtobaraiGatewayPlugin.__init__: the GatewayConfig stored in self.config.
PluginInit(stored) ==
    LET configuration == ConfDict(stored)
    IN [ gateway_name |-> GATEWAY_NAME,
         auto_capture |-> FALSE,
         supported_currencies |-> SUPPORTED_CURRENCIES,
         connection_params |->
           [ merchant_code |-> configuration[MERCHANT_CODE],
             sp_code |-> configuration[SP_CODE],
             terminal_id |-> configuration[TERMINAL_ID],
             sandbox_mode |-> configuration[USE_SANDBOX] ] ]

_get_gateway_config == config

----------------------------------------------------------------------------
(* Values exchanged with the external modules *)

NoValue == [type |-> "None"]
NoError == [raised |-> FALSE]

ValidationError(message, fields, code) ==
    [raised |-> TRUE, message |-> message, fields |-> fields, code |-> code]

PaymentData == { [type |-> "PaymentData", payment_id |-> i] : i \in 1..MaxPayment }

PreviousValues == { NoValue, [type |-> "str", value |-> "previous"] }

\* What the gateway functions capture/refund/void/process_payment of the
\* package (not part of the plugin) may return.
GatewayResponses ==
    { [type |-> "GatewayResponse", is_success |-> b, psp_reference |-> r] :
      b \in BOOLEAN, r \in 1..MaxReference }

\* What api.health_check may return.
HealthResponses == BOOLEAN

GatewayCall(fn, payment_information, cfg, response) ==
    [ fn |-> fn, payment_information |-> payment_information,
      config |-> cfg, response |-> response ]

HealthCall(api_config, response) ==
    [ fn |-> "health_check", api_config |-> api_config, response |-> response ]

----------------------------------------------------------------------------
(* The payment hooks.  Each operator gives the outcome of one run of the   *)
(* hook: the external calls it makes and the value it returns, where       *)
(* response is what the gateway function answers.                          *)

capture_payment_calls_refund(payment_information, previous_value, response) ==
    [ calls |-> << GatewayCall("refund", payment_information,
                               _get_gateway_config, response) >>,
      value |-> response ]

capture_payment(payment_information, previous_value, response) ==
    [ calls |-> << GatewayCall("capture", payment_information,
                               _get_gateway_config, response) >>,
      value |-> response ]

refund_payment(payment_information, previous_value, response) ==
    [ calls |-> << GatewayCall("refund", payment_information,
                               _get_gateway_config, response) >>,
      value |-> response ]

void_payment(payment_information, previous_value, response) ==
    [ calls |-> << GatewayCall("void", payment_information,
                               _get_gateway_config, response) >>,
      value |-> response ]

process_payment(payment_information, previous_value, response) ==
    [ calls |-> << GatewayCall("process_payment", payment_information,
                               _get_gateway_config, response) >>,
      value |-> response ]

get_supported_currencies(previous_value) ==
    [type |-> "str", value |-> SUPPORTED_CURRENCIES]

----------------------------------------------------------------------------
(* The validators.  Each operator gives the outcome of one run: the        *)
(* external calls made and the error raised (NoError on a normal return),  *)
(* where response is what api.health_check answers if it is called.        *)

validate_authentication_never_raises(pc, response) ==
    LET conf == ConfDict(pc.configuration)
    IN [ calls |-> << HealthCall(get_api_config(conf), response) >>,
         error |-> NoError ]

validate_authentication(pc, response) ==
    LET conf == ConfDict(pc.configuration)
    IN [ calls |-> << HealthCall(get_api_config(conf), response) >>,
         error |-> IF ~response
                   THEN ValidationError(
                          "Authentication failed. Please check provided data.",
                          << >>, PLUGIN_MISCONFIGURED)
                   ELSE NoError ]

missing_fields_without_sp_code(configuration) ==
    (IF ~Truthy(configuration[MERCHANT_CODE]) THEN <<TERMINAL_ID>> ELSE << >>)
    \o (IF ~Truthy(configuration[TERMINAL_ID]) THEN <<TERMINAL_ID>> ELSE << >>)

\* The list missing_fields built at the start of validate_plugin_configuration.
missing_fields(configuration) ==
    (IF ~Truthy(configuration[MERCHANT_CODE]) THEN <<TERMINAL_ID>> ELSE << >>)
    \o (IF ~Truthy(configuration[SP_CODE]) THEN <<SP_CODE>> ELSE << >>)
    \o (IF ~Truthy(configuration[TERMINAL_ID]) THEN <<TERMINAL_ID>> ELSE << >>)

validate_plugin_configuration_ungated(pc, response) ==
    LET configuration == ConfDict(pc.configuration)
        missing == missing_fields(configuration)
    IN IF pc.active /\ missing # << >>
       THEN [ calls |-> << >>,
              error |-> ValidationError(
                "To enable a plugin, you need to provide values for the following fields: ",
                missing, PLUGIN_MISCONFIGURED) ]
       ELSE validate_authentication(pc, response)

validate_plugin_configuration(pc, response) ==
    LET configuration == ConfDict(pc.configuration)
        missing == missing_fields(configuration)
    IN IF pc.active
       THEN IF missing # << >>
            THEN [ calls |-> << >>,
                   error |-> ValidationError(
                     "To enable a plugin, you need to provide values for the following fields: ",
                     missing, PLUGIN_MISCONFIGURED) ]
            ELSE validate_authentication(pc, response)
       ELSE [ calls |-> << >>, error |-> NoError ]

----------------------------------------------------------------------------
(* Plugin actions: one per hook or validator invoked by the framework *)

Ran(op, payment_information, previous_value, error, value) ==
    [ op |-> op, payment_information |-> payment_information,
      previous_value |-> previous_value, error |-> error, value |-> value ]

Hook_sets_auto_capture(op, payment_information, previous_value, outcome) ==
    /\ calls' = outcome.calls
    /\ last' = Ran(op, payment_information, previous_value, NoError, outcome.value)
    /\ config' = [config EXCEPT !.auto_capture = TRUE]
    /\ UNCHANGED <<plugin_configuration, shop, order, order_data>>

\* One run of a payment hook: it reads self.config and assigns nothing.
Hook(op, payment_information, previous_value, outcome) ==
    /\ calls' = outcome.calls
    /\ last' = Ran(op, payment_information, previous_value, NoError, outcome.value)
    /\ UNCHANGED <<plugin_configuration, config, shop, order, order_data>>

CapturePayment ==
    \E pi \in PaymentData, pv \in PreviousValues, r \in GatewayResponses :
        Hook("capture_payment", pi, pv, capture_payment(pi, pv, r))

RefundPayment ==
    \E pi \in PaymentData, pv \in PreviousValues, r \in GatewayResponses :
        Hook("refund_payment", pi, pv, refund_payment(pi, pv, r))

VoidPayment ==
    \E pi \in PaymentData, pv \in PreviousValues, r \in GatewayResponses :
        Hook("void_payment", pi, pv, void_payment(pi, pv, r))

ProcessPayment ==
    \E pi \in PaymentData, pv \in PreviousValues, r \in GatewayResponses :
        Hook("process_payment", pi, pv, process_payment(pi, pv, r))

GetSupportedCurrencies ==
    \E pv \in PreviousValues :
        /\ calls' = << >>
        /\ last' = Ran("get_supported_currencies", NoValue, pv, NoError,
                       get_supported_currencies(pv))
        /\ UNCHANGED <<plugin_configuration, config, shop, order, order_data>>

Validator(op, outcome) ==
    /\ calls' = outcome.calls
    /\ last' = Ran(op, NoValue, NoValue, outcome.error, NoValue)
    /\ UNCHANGED <<plugin_configuration, config, shop, order, order_data>>

ValidateAuthentication ==
    \E r \in HealthResponses :
        Validator("validate_authentication",
                  validate_authentication(plugin_configuration, r))

ValidatePluginConfiguration ==
    \E r \in HealthResponses :
        Validator("validate_plugin_configuration",
                  validate_plugin_configuration(plugin_configuration, r))

----------------------------------------------------------------------------
(* The draft-order scenario of the e2e test.  The platform's order and tax *)
(* engine is not part of the sources at hand; it is modelled from the      *)
(* behaviour the scenario states.  Amounts are in hundredths of a unit.    *)

MaxPriceSteps == 2     \* how many small prices are tried besides the test's
MaxLines == 2          \* lines a draft order may receive
MaxQuantity == 2       \* quantity of one line

\* Values the test passes to prepare_shop / prepare_product.
country_tax_rate == 20
product_tax_rate == 13
variant_price == 1234

TaxRates == {0, product_tax_rate, country_tax_rate}
VariantPrices == {variant_price * 100} \cup { 50 * k : k \in 1..MaxPriceSteps }
ShippingPrices == { 125 * k : k \in 0..MaxPriceSteps }

Shops ==
    { [ country_tax_rate |-> c, product_tax_rate |-> p,
        prices_entered_with_tax |-> FALSE,
        product_tax_class_assigned |-> a,
        variant_price |-> v, shipping_price |-> s ] :
      c \in TaxRates, p \in TaxRates, a \in BOOLEAN,
      v \in VariantPrices, s \in ShippingPrices }

TestShop ==
    [ country_tax_rate |-> country_tax_rate, product_tax_rate |-> product_tax_rate,
      prices_entered_with_tax |-> FALSE, product_tax_class_assigned |-> TRUE,
      variant_price |-> variant_price * 100, shipping_price |-> 1000 ]

\* n / d rounded to the nearest integer, ties to the even neighbour
\* (Python's round on an exactly representable value); n >= 0, d > 0.
round_half_even(n, d) ==
    LET q == n \div d
        r == n % d
    IN IF 2 * r < d THEN q
       ELSE IF 2 * r > d THEN q + 1
       ELSE IF q % 2 = 0 THEN q ELSE q + 1

\* round(price * (rate / 100), 2) of the test, on amounts in hundredths.
calculated_tax(price, rate) == round_half_even(price * rate, 100)

Money(net, tax) == [net |-> net, tax |-> tax, gross |-> net + tax]

line_tax_rate_country(s) == s.country_tax_rate

\* The rate applied to an order line: the rate of the product's tax class
\* when one is assigned, the country rate otherwise.
line_tax_rate(s) ==
    IF s.product_tax_class_assigned THEN s.product_tax_rate ELSE s.country_tax_rate

shipping_tax_rate_product(s) == line_tax_rate(s)

\* The rate applied to the shipping price: the country rate.
shipping_tax_rate(s) == s.country_tax_rate

line_price(s, quantity) ==
    LET net == s.variant_price * quantity
    IN Money(net, round_half_even(net * line_tax_rate(s), 100))

shipping_price(s, o) ==
    IF o.shippingMethod
    THEN Money(s.shipping_price,
               round_half_even(s.shipping_price * shipping_tax_rate(s), 100))
    ELSE Money(0, 0)

RECURSIVE lines_total(_, _)
lines_total(s, lines) ==
    IF lines = << >> THEN Money(0, 0)
    ELSE LET h == line_price(s, Head(lines))
             t == lines_total(s, Tail(lines))
         IN Money(h.net + t.net, h.tax + t.tax)

order_total(s, o) ==
    LET l == lines_total(s, o.lines)
        sh == shipping_price(s, o)
    IN Money(l.net + sh.net, l.tax + sh.tax)

NoOrder ==
    [ status |-> "NONE", paymentStatus |-> "NONE", billingAddress |-> FALSE,
      shippingAddress |-> FALSE, lines |-> << >>, shippingMethod |-> FALSE ]

\* The payload an order mutation answers with.
OrderPayload(op, errors, s, o) ==
    [ type |-> "order", op |-> op, errors |-> errors,
      status |-> o.status, paymentStatus |-> o.paymentStatus,
      total |-> order_total(s, o), shippingPrice |-> shipping_price(s, o) ]

Respond(op, ok, o) ==
    /\ order' = (IF ok THEN o ELSE order)
    /\ order_data' = OrderPayload(op, ~ok, shop, IF ok THEN o ELSE order)
    /\ UNCHANGED <<shop, plugin_configuration, config, calls, last>>

draft_order_create(billing, shipping) ==
    /\ order.status = "NONE"
    /\ Respond("draft_order_create", TRUE,
               [ status |-> "DRAFT", paymentStatus |-> "NOT_CHARGED",
                 billingAddress |-> billing, shippingAddress |-> shipping,
                 lines |-> << >>, shippingMethod |-> FALSE ])

order_lines_create_any_status(quantity) ==
    /\ order.status # "NONE"
    /\ Len(order.lines) < MaxLines
    /\ Respond("order_lines_create", TRUE,
               [order EXCEPT !.lines = Append(order.lines, quantity)])

order_lines_create(quantity) ==
    /\ order.status # "NONE"
    /\ Len(order.lines) < MaxLines \/ order.status # "DRAFT"
    /\ Respond("order_lines_create", order.status = "DRAFT",
               [order EXCEPT !.lines = Append(order.lines, quantity)])

draft_order_update ==
    /\ order.status # "NONE"
    /\ Respond("draft_order_update",
               order.status = "DRAFT" /\ order.shippingAddress,
               [order EXCEPT !.shippingMethod = TRUE])

draft_order_complete ==
    /\ order.status # "NONE"
    /\ Respond("draft_order_complete",
               /\ order.status = "DRAFT"
               /\ order.billingAddress
               /\ order.shippingAddress
               /\ order.lines # << >>
               /\ order.shippingMethod,
               [order EXCEPT !.status = "UNFULFILLED",
                             !.paymentStatus = "NOT_CHARGED"])

DraftOrderCreate ==
    \E billing \in BOOLEAN, shipping \in BOOLEAN : draft_order_create(billing, shipping)

OrderLinesCreate ==
    \E quantity \in 1..MaxQuantity : order_lines_create(quantity)

DraftOrderUpdate == draft_order_update

DraftOrderComplete == draft_order_complete

----------------------------------------------------------------------------
NotRun == Ran("__init__", NoValue, NoValue, NoError, NoValue)

Init ==
    /\ plugin_configuration \in PluginConfigurations
    /\ config = PluginInit(plugin_configuration.configuration)
    /\ calls = << >>
    /\ last = NotRun
    /\ shop = TestShop
    /\ order = NoOrder
    /\ order_data = NoValue

Next ==
    \/ CapturePayment
    \/ RefundPayment
    \/ VoidPayment
    \/ ProcessPayment
    \/ GetSupportedCurrencies
    \/ ValidateAuthentication
    \/ ValidatePluginConfiguration

Spec == Init /\ [][Next]_vars

\* The order scenario, with the plugin left as constructed from its defaults.
InitOrder ==
    /\ plugin_configuration = [configuration |-> DEFAULT_CONFIGURATION, active |-> FALSE]
    /\ config = PluginInit(plugin_configuration.configuration)
    /\ calls = << >>
    /\ last = NotRun
    /\ shop \in Shops
    /\ order = NoOrder
    /\ order_data = NoValue

NextOrder ==
    \/ DraftOrderCreate
    \/ OrderLinesCreate
    \/ DraftOrderUpdate
    \/ DraftOrderComplete

SpecOrder == InitOrder /\ [][NextOrder]_vars

----------------------------------------------------------------------------
(* Properties of the plugin, checked under Spec *)

StoredConf == ConfDict(plugin_configuration.configuration)

EmptyFields == { f \in RequiredFields : ~Truthy(StoredConf[f]) }

RanValidation == last.op = "validate_plugin_configuration"

RaisedMisconfigured == last.error.raised /\ last.error.code = PLUGIN_MISCONFIGURED

HealthChecks == { i \in 1..Len(calls) : calls[i].fn = "health_check" }

\* C1 (as stated): whenever one of the three required fields is empty,
\* validate_plugin_configuration raises ValidationError(PLUGIN_MISCONFIGURED),
\* whatever the active flag.
C1_RaisesWhateverActive ==
    (RanValidation /\ EmptyFields # {}) => RaisedMisconfigured

\* C1 (amended): with a required field empty, validate_plugin_configuration
\* raises ValidationError(PLUGIN_MISCONFIGURED) when the configuration is
\* active, whatever the other values, and returns normally, without any
\* external call, when the configuration is inactive.
C1_RaisesWhenActive ==
    (RanValidation /\ EmptyFields # {}) =>
        IF plugin_configuration.active
        THEN RaisedMisconfigured /\ calls = << >>
        ELSE ~last.error.raised /\ calls = << >>

C1_Witness ==
    /\ RanValidation
    /\ plugin_configuration.active
    /\ EmptyFields = {SP_CODE}
    /\ RaisedMisconfigured

\* C2: validate_authentication raises ValidationError(PLUGIN_MISCONFIGURED)
\* exactly when the health check, called with the API config built from the
\* configuration, answers falsy; validate_plugin_configuration on an active
\* configuration with all required fields present raises exactly then too.
C2_AuthenticationFailureRaises ==
    (\/ last.op = "validate_authentication"
     \/ (RanValidation /\ plugin_configuration.active /\ EmptyFields = {})) =>
        /\ Len(calls) = 1
        /\ calls[1].fn = "health_check"
        /\ calls[1].api_config.merchant_code = StoredConf[MERCHANT_CODE]
        /\ calls[1].api_config.sp_code = StoredConf[SP_CODE]
        /\ calls[1].api_config.terminal_id = StoredConf[TERMINAL_ID]
        /\ calls[1].api_config.test_mode = StoredConf[USE_SANDBOX]
        /\ last.error.raised <=> ~calls[1].response
        /\ last.error.raised => last.error.code = PLUGIN_MISCONFIGURED

C2_Witness ==
    /\ RanValidation
    /\ plugin_configuration.active
    /\ EmptyFields = {}
    /\ ~calls[1].response
    /\ RaisedMisconfigured

HookKind ==
    [ capture_payment |-> "capture", refund_payment |-> "refund",
      void_payment |-> "void", process_payment |-> "process_payment" ]

\* C3: each payment hook calls the gateway function of its own kind exactly
\* once, with the unchanged payment_information and the plugin's gateway
\* config, and returns that call's response unchanged, whatever
\* previous_value is.
C3_HooksPassThrough ==
    last.op \in DOMAIN HookKind =>
        /\ Len(calls) = 1
        /\ calls[1].fn = HookKind[last.op]
        /\ calls[1].payment_information = last.payment_information
        /\ calls[1].config = config
        /\ last.value = calls[1].response
        /\ ~last.error.raised

C3_Witness ==
    /\ last.op = "capture_payment"
    /\ last.previous_value # NoValue
    /\ last.payment_information.payment_id = MaxPayment
    /\ calls[1].fn = "capture"
    /\ ~last.value.is_success

\* C4: get_api_config and the GatewayConfig built at construction carry each
\* stored field under its own name: merchant_code, sp_code, terminal_id and
\* use_sandbox (as test_mode, resp. sandbox_mode), with auto_capture = False
\* and supported_currencies = "JPY", which get_supported_currencies returns.
C4_FieldsMappedByName ==
    /\ config.connection_params.merchant_code = StoredConf[MERCHANT_CODE]
    /\ config.connection_params.sp_code = StoredConf[SP_CODE]
    /\ config.connection_params.terminal_id = StoredConf[TERMINAL_ID]
    /\ config.connection_params.sandbox_mode = StoredConf[USE_SANDBOX]
    /\ config.auto_capture = FALSE
    /\ config.supported_currencies = "JPY"
    /\ last.op = "get_supported_currencies" => last.value.value = "JPY"
    /\ \A i \in HealthChecks :
        /\ calls[i].api_config.merchant_code = StoredConf[MERCHANT_CODE]
        /\ calls[i].api_config.sp_code = StoredConf[SP_CODE]
        /\ calls[i].api_config.terminal_id = StoredConf[TERMINAL_ID]
        /\ calls[i].api_config.test_mode = StoredConf[USE_SANDBOX]

C4_Witness ==
    /\ last.op = "validate_authentication"
    /\ HealthChecks # {}
    /\ StoredConf[MERCHANT_CODE] = "A"
    /\ StoredConf[SP_CODE] = "B"
    /\ StoredConf[TERMINAL_ID] = ""
    /\ StoredConf[USE_SANDBOX] = FALSE

IsMissingFieldsError ==
    RanValidation /\ last.error.raised /\ last.error.fields # << >>

\* C8: the missing-fields error names exactly the required fields whose
\* value is empty, each once.
C8_ErrorNamesMissingFields ==
    IsMissingFieldsError =>
        /\ { last.error.fields[i] : i \in 1..Len(last.error.fields) } = EmptyFields
        /\ Len(last.error.fields) = Cardinality(EmptyFields)

\* C9: one run of validate_plugin_configuration calls the health check once
\* when the configuration is active with all required fields present, and
\* not at all otherwise.
C9_HealthCheckGated ==
    RanValidation =>
        /\ \A i \in 1..Len(calls) : calls[i].fn = "health_check"
        /\ Len(calls) = IF plugin_configuration.active /\ EmptyFields = {}
                        THEN 1 ELSE 0

C9_Witness ==
    /\ RanValidation
    /\ plugin_configuration.active
    /\ EmptyFields = {}
    /\ Len(calls) = 1
    /\ last.error.raised

\* C10: no hook or validator run changes the plugin's gateway config or the
\* stored plugin configuration, whether or not the run raised.
C10_ConfigFixed ==
    [][config' = config /\ plugin_configuration' = plugin_configuration]_vars

C10_Witness ==
    /\ last.op = "validate_authentication"
    /\ last.error.raised
    /\ config = PluginInit(plugin_configuration.configuration)
    /\ config.connection_params.merchant_code = "A"

----------------------------------------------------------------------------
(* Properties of the draft-order scenario, checked under SpecOrder *)

Answered(op) == order_data.type = "order" /\ order_data.op = op /\ ~order_data.errors

Completable(o) ==
    /\ o.status = "DRAFT"
    /\ o.billingAddress
    /\ o.shippingAddress
    /\ o.lines # << >>
    /\ o.shippingMethod

====
